---- MODULE Spec2Model ----
(***************************************************************************)
(* rumdl: the two exemplar rules MD044 (proper names) and MD050 (strong    *)
(* style), the MD044 violation cache, and the LSP byte-range conversion.   *)
(*                                                                         *)
(* A text is a sequence of characters; a character is a string naming it   *)
(* (itself, or its code point).  Rust strings are UTF-8, and the regex     *)
(* engines, slices and replace_range all work with BYTE offsets, so every  *)
(* offset below is a 0-based byte offset unless it is called a character   *)
(* index.                                                                  *)
(***************************************************************************)
EXTENDS Integers, Sequences, FiniteSets, TLC

VARIABLES
    names,          \* MD044Config.names
    code_blocks,    \* MD044Config.code_blocks
    style,          \* MD050Config.style
    content,        \* ctx.content of the call in progress / last call
    code,           \* the byte offsets ctx.is_in_code_block_or_span accepts
    pc,             \* position of the single-call scenarios
    target,         \* MD050: target_style resolved by check / fix
    warnings,       \* result of check
    fixed,          \* result of fix (once pc says fix has run)
    refixed,        \* result of fix applied to the result of fix
    hashOf,         \* fast_hash, as a function of the contents used
    content_cache,  \* MD044ProperNames.content_cache (shared by clones)
    last,           \* cache scenario: what the last call did
    firstScan,      \* cache scenario: content -> list its first scan produced
    th,             \* concurrent scenario: per-thread position and locals
    cache_lock,     \* holder of content_cache's Mutex (0: free)
    regex_lock,     \* holder of combined_regex's Mutex (0: free)
    byte_range,     \* LSP: the byte range given to byte_range_to_lsp_range
    lsp_result,     \* LSP: its result
    warning,        \* LSP: the LintWarning given to the two adapters
    uri,            \* LSP: the document's Url given to warning_to_code_action
    code_action,    \* LSP: result of warning_to_code_action
    diagnostic,     \* LSP: result of warning_to_diagnostic
    rule,           \* fix loop: the rule whose fix is running
    queue,          \* fix loop: the edits its loop has still to visit
    fixed_content,  \* fix loop: the working buffer (MD050 calls it result)
    applied,        \* fix loop: the edits applied so far, each with the buffer before it
    scan_line_num,  \* line loop: line_num, the index of the line about to be processed
    scan_byte_pos,  \* line loop: byte_pos, the running byte position
    violations      \* line loop: MD044's violations so far

vars == << names, code_blocks, style, content, code, pc, target, warnings,
           fixed, refixed, hashOf, content_cache, last, firstScan, th,
           cache_lock, regex_lock, byte_range, lsp_result, warning, uri,
           code_action, diagnostic, rule, queue, fixed_content, applied,
           scan_line_num, scan_byte_pos, violations >>

ruleVars  == << names, code_blocks, style >>
cacheVars == << hashOf, content_cache, last, firstScan >>
concVars  == << th, cache_lock, regex_lock >>
lspVars   == << byte_range, lsp_result, warning, uri, code_action, diagnostic >>
fixVars   == << rule, queue, fixed_content, applied >>
scanVars  == << scan_line_num, scan_byte_pos, violations >>

\* Option: None is a string where Some holds a string, and the empty sequence
\* where Some(x) holds a record, written << x >>.
None == "None"
NoMatch == << >>

(***************************************************************************)
(* Bounds of the model.                                                    *)
(***************************************************************************)
\* Longest document, in tokens of the scenario's token set.
MaxTokens == 3
\* Number of distinct keys fast_hash can return in the cache scenarios.
NumKeys == 2
\* Number of threads calling one rule instance.
NumThreads == 2

(***************************************************************************)
(* UTF-8 text.                                                             *)
(***************************************************************************)
\* The character U+0060 (grave accent), which cannot be written in a string here.
BACKTICK == "U+0060"

\* The character U+00E9 (e with acute accent), two bytes in UTF-8.
E_ACUTE == "U+00E9"

\* char::len_utf8: the only multi-byte character of the model is U+00E9.
len_utf8(ch) == IF ch = E_ACUTE THEN 2 ELSE 1

RECURSIVE len(_)
\* str::len: the length in bytes.
len(s) == IF s = <<>> THEN 0 ELSE len_utf8(Head(s)) + len(Tail(s))

\* Byte offset of the character with (1-based) index k; k = Len(s)+1 gives len(s).
ByteOff(s, k) == len(SubSeq(s, 1, k - 1))

\* str::is_char_boundary
is_char_boundary(s, b) == \E k \in 1..(Len(s) + 1) : ByteOff(s, k) = b

\* The character index whose byte offset is b (b on a character boundary).
CharIdx(s, b) == CHOOSE k \in 1..(Len(s) + 1) : ByteOff(s, k) = b

\* The slice &s[a..b] by byte offsets.
Slice(s, a, b) == SubSeq(s, CharIdx(s, a), CharIdx(s, b) - 1)

\* String::replace_range(a..b, r) by byte offsets.
replace_range(s, a, b, r) ==
    SubSeq(s, 1, CharIdx(s, a) - 1) \o r \o SubSeq(s, CharIdx(s, b), Len(s))

\* Iterator::chars().nth(i).unwrap_or(' '): i is a 0-based CHARACTER index.
chars_nth_or_space(s, i) == IF i + 1 <= Len(s) THEN s[i + 1] ELSE " "

RECURSIVE Flatten(_)
Flatten(ss) == IF ss = <<>> THEN <<>> ELSE Head(ss) \o Flatten(Tail(ss))

RECURSIVE SeqsUpTo(_, _)
\* All sequences over T of length at most n.
SeqsUpTo(T, n) ==
    IF n = 0 THEN { <<>> }
    ELSE LET S == SeqsUpTo(T, n - 1) IN S \cup { Append(s, t) : s \in S, t \in T }

Reverse(s) == [i \in 1..Len(s) |-> s[Len(s) + 1 - i]]

Min(S) == CHOOSE x \in S : \A y \in S : x <= y

RECURSIVE LineEnd(_, _)
\* Character index of the first "\n" at or after index i, or Len(s)+1.
LineEnd(s, i) == IF i > Len(s) \/ s[i] = "\n" THEN i ELSE LineEnd(s, i + 1)

\* A line without its terminator: "\n", or "\r\n".
StripCr(l, terminated) ==
    IF terminated /\ l # <<>> /\ l[Len(l)] = "\r" THEN SubSeq(l, 1, Len(l) - 1) ELSE l

RECURSIVE LinesFrom(_, _)
LinesFrom(s, i) ==
    IF i > Len(s) THEN <<>>
    ELSE LET e == LineEnd(s, i)
         IN << StripCr(SubSeq(s, i, e - 1), e <= Len(s)) >> \o LinesFrom(s, e + 1)

\* str::lines: split at "\n", a "\r" before it dropped, no final empty line.
lines(s) == LinesFrom(s, 1)

RECURSIVE LineStartsFrom(_, _)
LineStartsFrom(s, i) ==
    IF i > Len(s) THEN <<>>
    ELSE << ByteOff(s, i) >> \o LineStartsFrom(s, LineEnd(s, i) + 1)

\* The true byte offset of the first character of each line of lines(s).
LineStarts(s) == LineStartsFrom(s, 1)

(***************************************************************************)
(* The code-region oracle (LintContext, an external collaborator).         *)
(***************************************************************************)
is_in_code_block_or_span(c, pos) == pos \in c

(***************************************************************************)
(* utils::range_utils (LineIndex, calculate_match_range): not among the    *)
(* sources; modelled from the specification's Position Index, whose        *)
(* columns count characters.                                               *)
(***************************************************************************)
\* LineIndex::line_col_to_byte_range(line, column).start: the byte offset of
\* the column-th character (1-based) of the line-th line (1-based).
line_col_to_byte_range(s, line, column) ==
    LET starts == LineStarts(s)
        ls     == lines(s)
    IN  IF line < 1 \/ line > Len(ls) THEN len(s)
        ELSE LET l == ls[line]
                 c == IF column < 1 THEN 0 ELSE column - 1
             IN  starts[line] + ByteOff(l, IF c > Len(l) THEN Len(l) + 1 ELSE c + 1)

\* calculate_match_range(line_num, line, start, len): 1-based character columns
\* of the match line[start .. start+len].
calculate_match_range(line_num, l, start, mlen) ==
    LET sc == CharIdx(l, start)
        ec == CharIdx(l, start + mlen)
    IN  << line_num, sc, line_num, ec >>

(***************************************************************************)
(* MD050 strong style (src/src/rules/md050_strong_style.rs).               *)
(***************************************************************************)
Styles == { "Asterisk", "Underscore", "Consistent" }

\* The two patterns  __[^_\\]+__  and  \*\*[^*\\]+\*\* , named by their marker.
UNDERSCORE_PATTERN == "_"
ASTERISK_PATTERN == "*"

RECURSIVE RunEnd(_, _, _)
\* End (exclusive character index) of the longest run of [^mk\\] starting at j.
RunEnd(s, j, mk) ==
    IF j > Len(s) \/ s[j] = mk \/ s[j] = "\\" THEN j ELSE RunEnd(s, j + 1, mk)

\* The pattern matched at character index i: the exclusive end index, or 0.
\* The class is greedy and excludes the marker, so only the longest run can
\* be followed by the closing marker pair; it also matches "\n".
MatchEnd(mk, s, i) ==
    IF i + 1 <= Len(s) /\ s[i] = mk /\ s[i + 1] = mk
    THEN LET e == RunEnd(s, i + 2, mk)
         IN  IF e > i + 2 /\ e + 1 <= Len(s) /\ s[e] = mk /\ s[e + 1] = mk
             THEN e + 2 ELSE 0
    ELSE 0

RECURSIVE find_iter_from(_, _, _)
find_iter_from(mk, s, p) ==
    IF p > Len(s) THEN <<>>
    ELSE LET e == MatchEnd(mk, s, p)
         IN  IF e # 0
             THEN << [start |-> ByteOff(s, p), end |-> ByteOff(s, e)] >>
                  \o find_iter_from(mk, s, e)
             ELSE find_iter_from(mk, s, p + 1)

\* Regex::find_iter: the leftmost non-overlapping matches, as byte ranges.
find_iter(mk, s) == find_iter_from(mk, s, 1)

RECURSIVE first_outside_code(_, _)
\* The first match whose start is not in a code region (the loops with break).
first_outside_code(ms, c) ==
    IF ms = <<>> THEN NoMatch
    ELSE IF ~is_in_code_block_or_span(c, Head(ms).start) THEN << Head(ms) >>
    ELSE first_outside_code(Tail(ms), c)

\* detect_style with the comparison of the two first occurrences reversed.
detect_style_reversed(s, c) ==
    LET first_asterisk   == first_outside_code(find_iter(ASTERISK_PATTERN, s), c)
        first_underscore == first_outside_code(find_iter(UNDERSCORE_PATTERN, s), c)
    IN  IF first_asterisk # NoMatch /\ first_underscore # NoMatch
        THEN IF first_asterisk[1].start > first_underscore[1].start
             THEN "Asterisk" ELSE "Underscore"
        ELSE IF first_asterisk # NoMatch THEN "Asterisk"
        ELSE IF first_underscore # NoMatch THEN "Underscore"
        ELSE None

detect_style(s, c) ==
    LET first_asterisk   == first_outside_code(find_iter(ASTERISK_PATTERN, s), c)
        first_underscore == first_outside_code(find_iter(UNDERSCORE_PATTERN, s), c)
    IN  IF first_asterisk # NoMatch /\ first_underscore # NoMatch
        THEN IF first_asterisk[1].start < first_underscore[1].start
             THEN "Asterisk" ELSE "Underscore"
        ELSE IF first_asterisk # NoMatch THEN "Asterisk"
        ELSE IF first_underscore # NoMatch THEN "Underscore"
        ELSE None

RECURSIVE backslash_count(_, _)
\* The while loop of is_escaped, entered with i > 0: i is decremented and used
\* as a CHARACTER index into text.
backslash_count(text, i) ==
    IF i = 0 THEN 0
    ELSE IF chars_nth_or_space(text, i - 1) # "\\" THEN 0
    ELSE 1 + backslash_count(text, i - 1)

is_escaped(text, pos) ==
    IF pos = 0 THEN FALSE ELSE backslash_count(text, pos) % 2 = 1

\* target_style of check and fix.
target_style(st, s, c) ==
    IF st = "Consistent"
    THEN LET d == detect_style(s, c) IN IF d = None THEN "Asterisk" ELSE d
    ELSE st

\* strong_regex: the pattern of the marker that is NOT the target.
strong_regex(t) == IF t = "Asterisk" THEN UNDERSCORE_PATTERN ELSE ASTERISK_PATTERN

message_050(t) ==
    IF t = "Asterisk" THEN "Strong emphasis should use ** instead of __"
    ELSE "Strong emphasis should use __ instead of **"

wrap_050(t, text) ==
    IF t = "Asterisk" THEN << "*", "*" >> \o text \o << "*", "*" >>
    ELSE << "_", "_" >> \o text \o << "_", "_" >>

RECURSIVE check_matches_050(_, _, _, _, _, _, _)
\* The inner loop of check over the matches ms of one line.
check_matches_050(s, c, t, line_num, l, byte_pos, ms) ==
    IF ms = <<>> THEN <<>>
    ELSE LET m == Head(ms)
             rest == check_matches_050(s, c, t, line_num, l, byte_pos, Tail(ms))
             match_byte_pos == byte_pos + m.start
         IN  IF is_in_code_block_or_span(c, match_byte_pos) THEN rest
             ELSE IF is_escaped(l, m.start) THEN rest
             ELSE LET r == calculate_match_range(line_num + 1, l, m.start, m.end - m.start)
                  IN << [ rule_name   |-> "MD050",
                          line        |-> r[1],
                          column      |-> r[2],
                          end_line    |-> r[3],
                          end_column  |-> r[4],
                          message     |-> message_050(t),
                          fix_start   |-> line_col_to_byte_range(s, line_num + 1, m.start + 1),
                          replacement |-> wrap_050(t, Slice(l, m.start + 2, m.end - 2)) ] >>
                     \o rest

RECURSIVE check_lines_050(_, _, _, _, _, _)
\* The outer loop of check: byte_pos grows by line.len() + 1 per line.
check_lines_050(s, c, t, ls, line_num, byte_pos) ==
    IF line_num >= Len(ls) THEN <<>>
    ELSE LET l == ls[line_num + 1]
         IN  check_matches_050(s, c, t, line_num, l, byte_pos, find_iter(strong_regex(t), l))
             \o check_lines_050(s, c, t, ls, line_num + 1, byte_pos + len(l) + 1)

MD050_check(st, s, c) ==
    check_lines_050(s, c, target_style(st, s, c), lines(s), 0, 0)

\* The matches fix rewrites: whole-document matches, not in code, not escaped.
fix_matches_050(st, s, c) ==
    LET keep(m) == ~is_in_code_block_or_span(c, m.start) /\ ~is_escaped(s, m.start)
    IN  SelectSeq(find_iter(strong_regex(target_style(st, s, c)), s), keep)

RECURSIVE apply_050(_, _, _)
\* The loop of fix over the matches in reverse order.
apply_050(result, ms, t) ==
    IF ms = <<>> THEN result
    ELSE LET m == Head(ms)
             text == Slice(result, m.start + 2, m.end - 2)
         IN  apply_050(replace_range(result, m.start, m.end, wrap_050(t, text)), Tail(ms), t)

MD050_fix(st, s, c) ==
    apply_050(s, Reverse(fix_matches_050(st, s, c)), target_style(st, s, c))

(***************************************************************************)
(* Scenario MD050: one document, one oracle, one configured style;         *)
(* check, then fix, then fix of the fixed text.                            *)
(***************************************************************************)
Tokens050 ==
    { << "*", "*" >>, << "_", "_" >>,
      << "*", "*", "a", "*", "*" >>, << "_", "_", "a", "_", "_" >>,
      << "a" >>, << "\\" >>, << "\n" >>, << E_ACUTE >> }

\* Byte offset of the i-th token of toks (i = Len+1: the end).
TokOff(toks, i) == len(Flatten(SubSeq(toks, 1, i - 1)))

\* The oracles tried: no code region, or one region covering tokens i..j.
CodeRegions(toks) ==
    { {} } \cup
    { TokOff(toks, i) .. (TokOff(toks, j + 1) - 1) :
        i \in 1..Len(toks), j \in 1..Len(toks) }

Idle ==
    /\ hashOf = << >> /\ content_cache = << >> /\ last = << >> /\ firstScan = << >>
    /\ th = << >> /\ cache_lock = 0 /\ regex_lock = 0
    /\ byte_range = [start |-> 0, end |-> 0] /\ lsp_result = << >>
    /\ warning = << >> /\ uri = "" /\ code_action = << >> /\ diagnostic = << >>
    /\ rule = "" /\ queue = << >> /\ fixed_content = << >> /\ applied = << >>
    /\ scan_line_num = 0 /\ scan_byte_pos = 0 /\ violations = << >>

Init050 ==
    /\ \E toks \in SeqsUpTo(Tokens050, MaxTokens) :
         /\ content = Flatten(toks)
         /\ code \in CodeRegions(toks)
    /\ style \in Styles
    /\ names = << >> /\ code_blocks = FALSE
    /\ pc = "init" /\ target = None
    /\ warnings = << >> /\ fixed = << >> /\ refixed = << >>
    /\ Idle

Check050 ==
    /\ pc = "init"
    /\ target' = target_style(style, content, code)
    /\ warnings' = MD050_check(style, content, code)
    /\ pc' = "checked"
    /\ UNCHANGED << ruleVars, content, code, fixed, refixed, cacheVars, concVars,
                    lspVars, fixVars, scanVars >>

Fix050 ==
    /\ pc = "checked"
    /\ fixed' = MD050_fix(style, content, code)
    /\ pc' = "fixed"
    /\ UNCHANGED << ruleVars, content, code, target, warnings, refixed,
                    cacheVars, concVars, lspVars, fixVars, scanVars >>

\* fix on the fixed text.  The rewrite keeps every byte offset (a marker pair
\* is replaced by a marker pair), so the oracle of the fixed text is taken to
\* classify the same offsets.
Refix050 ==
    /\ pc = "fixed"
    /\ refixed' = MD050_fix(style, fixed, code)
    /\ pc' = "refixed"
    /\ UNCHANGED << ruleVars, content, code, target, warnings, fixed,
                    cacheVars, concVars, lspVars, fixVars, scanVars >>

Next050 == Check050 \/ Fix050 \/ Refix050

Spec050 == Init050 /\ [][Next050]_vars

(***************************************************************************)
(* MD044 proper names (src/src/rules/md044_proper_names.rs).               *)
(***************************************************************************)
\* char::to_lowercase on the letters of the model.
Lower(ch) == CASE ch = "G" -> "g" [] ch = "O" -> "o"
                  [] ch = "M" -> "m" [] ch = "D" -> "d" [] OTHER -> ch

\* str::to_lowercase
to_lowercase(s) == [i \in 1..Len(s) |-> Lower(s[i])]

\* The class [a-zA-Z0-9] of the two lookarounds, on the model's characters.
IsAsciiAlnum(ch) == ch \in { "a", "g", "o", "x", "G", "O", "0", "1" }

\* char::is_whitespace, for str::trim_start.
IsWhitespace(ch) == ch \in { " ", "\t", "\r", "\n" }

RECURSIVE trim_start(_)
trim_start(s) ==
    IF s # <<>> /\ IsWhitespace(Head(s)) THEN trim_start(Tail(s)) ELSE s

starts_with(s, prefix) ==
    Len(s) >= Len(prefix) /\ SubSeq(s, 1, Len(prefix)) = prefix

\* str::contains
contains(s, needle) ==
    \E i \in 1..(Len(s) + 1) :
        i + Len(needle) - 1 <= Len(s) /\ SubSeq(s, i, i + Len(needle) - 1) = needle

\* str::replace('.', "")
replace_dots(s) == SelectSeq(s, LAMBDA ch : ch # ".")

RECURSIVE pattern_alternatives(_)
\* The alternatives of the combined pattern in the order the engine tries
\* them: per name its lowercase form, then (if different) the form without dots.
pattern_alternatives(nms) ==
    IF nms = <<>> THEN <<>>
    ELSE LET lower_name == to_lowercase(Head(nms))
             lower_name_no_dots == replace_dots(lower_name)
         IN  (IF lower_name = lower_name_no_dots
              THEN << lower_name >>
              ELSE << lower_name, lower_name_no_dots >>)
             \o pattern_alternatives(Tail(nms))

\* create_combined_pattern / compile_combined_regex: None (the empty sequence)
\* when no name is configured, else the compiled list of alternatives of
\*   (?<![a-zA-Z0-9])(?i)(...|...)(?![a-zA-Z0-9])
create_combined_pattern(nms) == pattern_alternatives(nms)

\* Alternative a matches at character index i of l, case-insensitively, with
\* the negative lookahead satisfied.
AltMatches(a, l, i) ==
    /\ i + Len(a) - 1 <= Len(l)
    /\ to_lowercase(SubSeq(l, i, i + Len(a) - 1)) = a
    /\ (i + Len(a) > Len(l) \/ ~IsAsciiAlnum(l[i + Len(a)]))

\* The combined pattern matched at character index i: the exclusive end index
\* of the first alternative that matches, or 0.
MatchEnd044(alts, l, i) ==
    IF (i = 1 \/ ~IsAsciiAlnum(l[i - 1])) /\ \E k \in DOMAIN alts : AltMatches(alts[k], l, i)
    THEN LET k == Min({ j \in DOMAIN alts : AltMatches(alts[j], l, i) })
         IN  i + Len(alts[k])
    ELSE 0

RECURSIVE find_iter_044_from(_, _, _)
find_iter_044_from(alts, l, p) ==
    IF p > Len(l) THEN <<>>
    ELSE LET e == MatchEnd044(alts, l, p)
         IN  IF e > p
             THEN << [start |-> ByteOff(l, p), end |-> ByteOff(l, e)] >>
                  \o find_iter_044_from(alts, l, e)
             ELSE find_iter_044_from(alts, l, p + 1)

\* fancy_regex find_iter of the combined pattern over one line.
find_iter_044(alts, l) == find_iter_044_from(alts, l, 1)

RECURSIVE get_proper_name_for(_, _)
\* The first configured name equal to found_name case-insensitively, with or
\* without its dots; None (the empty sequence) when there is none.
get_proper_name_for(nms, found_name) ==
    IF nms = <<>> THEN <<>>
    ELSE LET lower_name == to_lowercase(Head(nms))
             lower_name_no_dots == replace_dots(lower_name)
             found_lower == to_lowercase(found_name)
         IN  IF found_lower = lower_name \/ found_lower = lower_name_no_dots
             THEN << Head(nms) >>
             ELSE get_proper_name_for(Tail(nms), found_name)

\* The quick probe: some configured name (or its dotless form) is a substring.
has_potential_matches(nms, s) ==
    \E i \in DOMAIN nms :
        \/ contains(to_lowercase(s), to_lowercase(nms[i]))
        \/ contains(to_lowercase(s), replace_dots(to_lowercase(nms[i])))

RECURSIVE scan_matches_044(_, _, _, _)
\* The inner loop over the matches of one line: (line, column, found_name).
scan_matches_044(nms, line_num, l, ms) ==
    IF ms = <<>> THEN <<>>
    ELSE LET cap == Head(ms)
             found_name == Slice(l, cap.start, cap.end)
             proper == get_proper_name_for(nms, found_name)
             rest == scan_matches_044(nms, line_num, l, Tail(ms))
         IN  IF proper # <<>> /\ found_name # proper[1]
             THEN << << line_num + 1, cap.start + 1, found_name >> >> \o rest
             ELSE rest

RECURSIVE scan_lines_044(_, _, _, _, _, _)
\* The line loop of find_name_violations: byte_pos grows by line.len() + 1.
scan_lines_044(nms, cb, c, ls, line_num, byte_pos) ==
    IF line_num >= Len(ls) THEN <<>>
    ELSE LET l == ls[line_num + 1]
             trimmed == trim_start(l)
             rest == scan_lines_044(nms, cb, c, ls, line_num + 1, byte_pos + len(l) + 1)
         IN  IF starts_with(trimmed, << BACKTICK, BACKTICK, BACKTICK >>)
                \/ starts_with(trimmed, << "~", "~", "~" >>) THEN rest
             ELSE IF cb /\ is_in_code_block_or_span(c, byte_pos) THEN rest
             ELSE IF ~has_potential_matches(nms, l) THEN rest
             ELSE scan_matches_044(nms, line_num, l,
                                   find_iter_044(create_combined_pattern(nms), l))
                  \o rest

\* The scan of find_name_violations, from the regex clone to the end of the loop.
scan_044(nms, cb, s, c) == scan_lines_044(nms, cb, c, lines(s), 0, 0)

\* find_name_violations returns before it touches the cache.
early_return_044(nms, s) ==
    nms = <<>> \/ s = <<>> \/ ~has_potential_matches(nms, s)

\* The store into the cache left out.
insert_dropped(cache, h, v) == cache

\* HashMap::insert
insert(cache, h, v) ==
    [k \in DOMAIN cache \cup { h } |-> IF k = h THEN v ELSE cache[k]]

\* find_name_violations on the given cache with hash h of the content:
\* the list returned, the cache afterwards, and whether the scan ran.
find_name_violations(nms, cb, s, c, cache, h) ==
    IF early_return_044(nms, s)
    THEN [violations |-> <<>>, cache |-> cache, scanned |-> FALSE, hit |-> FALSE]
    ELSE IF h \in DOMAIN cache
    THEN [violations |-> cache[h], cache |-> cache, scanned |-> FALSE, hit |-> TRUE]
    ELSE IF create_combined_pattern(nms) = <<>>
    THEN [violations |-> <<>>, cache |-> cache, scanned |-> FALSE, hit |-> FALSE]
    ELSE LET v == scan_044(nms, cb, s, c)
         IN  [violations |-> v, cache |-> insert(cache, h, v),
              scanned |-> TRUE, hit |-> FALSE]

RECURSIVE warnings_044(_, _, _)
\* The filter_map of check over the violations.
warnings_044(nms, s, vs) ==
    IF vs = <<>> THEN <<>>
    ELSE LET v == Head(vs)
             proper == get_proper_name_for(nms, v[3])
             rest == warnings_044(nms, s, Tail(vs))
         IN  IF proper = <<>> THEN rest
             ELSE << [ rule_name   |-> "MD044",
                       line        |-> v[1],
                       column      |-> v[2],
                       end_line    |-> v[1],
                       end_column  |-> v[2] + len(v[3]),
                       message     |-> << "Proper name", v[3], "should be", proper[1] >>,
                       fix_start   |-> line_col_to_byte_range(s, v[1], v[2]),
                       replacement |-> proper[1] ] >> \o rest

\* b.0.cmp(&a.0).then(b.1.cmp(&a.1)) is Less or Equal: a is not after b in the
\* descending order by (line, column).
NotAfter(a, b) == a[1] > b[1] \/ (a[1] = b[1] /\ a[2] >= b[2])

RECURSIVE sort_desc(_)
\* violations.sort_by(...): stable, descending by (line, column).
sort_desc(vs) ==
    IF vs = <<>> THEN <<>>
    ELSE LET i == Min({ j \in DOMAIN vs : \A k \in DOMAIN vs :
                            NotAfter(vs[j], vs[k]) })
         IN  << vs[i] >> \o sort_desc(SubSeq(vs, 1, i - 1) \o SubSeq(vs, i + 1, Len(vs)))

RECURSIVE apply_044(_, _, _, _)
\* The loop of fix: s is the original content (the LineIndex's), cur the
\* fixed_content so far.
apply_044(nms, s, cur, vs) ==
    IF vs = <<>> THEN cur
    ELSE LET v == Head(vs)
             proper == get_proper_name_for(nms, v[3])
             start_byte == line_col_to_byte_range(s, v[1], v[2])
             end_byte == start_byte + len(v[3])
         IN  IF proper # <<>> /\ end_byte <= len(cur)
                /\ is_char_boundary(cur, start_byte) /\ is_char_boundary(cur, end_byte)
             THEN apply_044(nms, s, replace_range(cur, start_byte, end_byte, proper[1]), Tail(vs))
             ELSE apply_044(nms, s, cur, Tail(vs))

\* check: the warnings returned and the cache afterwards.
MD044_check(nms, cb, s, c, cache, h) ==
    IF s = <<>> \/ nms = <<>>
    THEN [warnings |-> <<>>, violations |-> <<>>, cache |-> cache,
          scanned |-> FALSE, hit |-> FALSE]
    ELSE LET r == find_name_violations(nms, cb, s, c, cache, h)
         IN  [warnings |-> warnings_044(nms, s, r.violations),
              violations |-> r.violations, cache |-> r.cache,
              scanned |-> r.scanned, hit |-> r.hit]

\* fix: the text returned and the cache afterwards.
MD044_fix(nms, cb, s, c, cache, h) ==
    IF s = <<>> \/ nms = <<>>
    THEN [text |-> s, violations |-> <<>>, cache |-> cache,
          scanned |-> FALSE, hit |-> FALSE]
    ELSE LET r == find_name_violations(nms, cb, s, c, cache, h)
         IN  [text |-> IF r.violations = <<>> THEN s
                       ELSE apply_044(nms, s, s, sort_desc(r.violations)),
              violations |-> r.violations, cache |-> r.cache,
              scanned |-> r.scanned, hit |-> r.hit]

(***************************************************************************)
(* utils::fast_hash: not among the sources.  It is a deterministic function *)
(* from contents to u64 keys; the model fixes its value for a content the  *)
(* first time the content is hashed, among a key space smaller than the    *)
(* set of contents (as 2^64 is smaller than the set of documents).         *)
(***************************************************************************)
Keys == 1..NumKeys

\* The functions hashOf may become when s is hashed.
fast_hash(h, s) ==
    IF s \in DOMAIN h THEN { h }
    ELSE { [x \in DOMAIN h \cup { s } |-> IF x = s THEN k ELSE h[x]] : k \in Keys }

\* hashOf after a call on s: the content is hashed unless the call returns first.
hashed(h, nms, s) == IF early_return_044(nms, s) THEN { h } ELSE fast_hash(h, s)

\* The key of s (0 where the call never hashes s).
key_of(h, s) == IF s \in DOMAIN h THEN h[s] ELSE 0

(***************************************************************************)
(* Scenario MD044: one document, one oracle, one configuration, a fresh    *)
(* rule instance; check, then fix.                                         *)
(***************************************************************************)
Go == << "G", "o" >>
NameLists044 == { << Go >>, << << "G", ".", "o" >> >>, << << "G", "O" >>, Go >> }

Tokens044 ==
    { << "g", "o" >>, Go, << " " >>, << E_ACUTE >>, << "\n" >>,
      << BACKTICK, BACKTICK, BACKTICK >>, << "x" >> }

Init044 ==
    /\ \E toks \in SeqsUpTo(Tokens044, MaxTokens) :
         /\ content = Flatten(toks)
         /\ code \in CodeRegions(toks)
    /\ names \in NameLists044
    /\ code_blocks \in BOOLEAN
    /\ style = "Consistent"
    /\ pc = "init" /\ target = None
    /\ warnings = << >> /\ fixed = << >> /\ refixed = << >>
    /\ Idle

Check044 ==
    /\ pc = "init"
    /\ \E h \in hashed(hashOf, names, content) :
         LET r == MD044_check(names, code_blocks, content, code, content_cache, key_of(h, content))
         IN  /\ hashOf' = h
             /\ warnings' = r.warnings
             /\ content_cache' = r.cache
    /\ pc' = "checked"
    /\ UNCHANGED << ruleVars, content, code, target, fixed, refixed, last, firstScan,
                    concVars, lspVars, fixVars, scanVars >>

Fix044 ==
    /\ pc = "checked"
    /\ \E h \in hashed(hashOf, names, content) :
         LET r == MD044_fix(names, code_blocks, content, code, content_cache, key_of(h, content))
         IN  /\ hashOf' = h
             /\ fixed' = r.text
             /\ content_cache' = r.cache
    /\ pc' = "fixed"
    /\ UNCHANGED << ruleVars, content, code, target, warnings, refixed, last, firstScan,
                    concVars, lspVars, fixVars, scanVars >>

Next == Check044 \/ Fix044

Spec == Init044 /\ [][Next]_vars

(***************************************************************************)
(* Scenario cache: a rule instance and a clone of it (#[derive(Clone)]     *)
(* clones the Arc, so both use one content_cache) are called one call at   *)
(* a time, in any order, on a few plain-text documents.                    *)
(***************************************************************************)
CacheDocs == { << "g", "o" >>, << " ", "g", "o" >>, Go, << "x" >> }

Instances == { "rule", "clone" }

\* The oracle of a document is a function of the document; the documents of
\* this scenario hold no code block or span.
CtxOf(s) == {}

InitCache ==
    /\ names = << Go >> /\ code_blocks = TRUE /\ style = "Consistent"
    /\ content = << >> /\ code = {}
    /\ pc = "calls" /\ target = None
    /\ warnings = << >> /\ fixed = << >> /\ refixed = << >>
    /\ Idle

\* What the call did, and whether an earlier call had run the scan on s.
CallRecord(inst, op, s, r) ==
    << [ instance |-> inst, op |-> op, content |-> s, violations |-> r.violations,
         scanned |-> r.scanned, hit |-> r.hit, seen |-> s \in DOMAIN firstScan ] >>

Remember(s, r) ==
    IF r.scanned /\ s \notin DOMAIN firstScan
    THEN [x \in DOMAIN firstScan \cup { s } |->
             IF x = s THEN r.violations ELSE firstScan[x]]
    ELSE firstScan

CallCheck(inst, s) ==
    /\ pc = "calls"
    /\ \E h \in hashed(hashOf, names, s) :
         LET r == MD044_check(names, code_blocks, s, CtxOf(s), content_cache, key_of(h, s))
         IN  /\ hashOf' = h
             /\ content_cache' = r.cache
             /\ warnings' = r.warnings
             /\ last' = CallRecord(inst, "check", s, r)
             /\ firstScan' = Remember(s, r)
    /\ content' = s /\ code' = CtxOf(s)
    /\ UNCHANGED << ruleVars, pc, target, fixed, refixed, concVars, lspVars, fixVars, scanVars >>

CallFix(inst, s) ==
    /\ pc = "calls"
    /\ \E h \in hashed(hashOf, names, s) :
         LET r == MD044_fix(names, code_blocks, s, CtxOf(s), content_cache, key_of(h, s))
         IN  /\ hashOf' = h
             /\ content_cache' = r.cache
             /\ fixed' = r.text
             /\ last' = CallRecord(inst, "fix", s, r)
             /\ firstScan' = Remember(s, r)
    /\ content' = s /\ code' = CtxOf(s)
    /\ UNCHANGED << ruleVars, pc, target, warnings, refixed, concVars, lspVars, fixVars, scanVars >>

NextCache ==
    \/ \E inst \in Instances, s \in CacheDocs : CallCheck(inst, s)
    \/ \E inst \in Instances, s \in CacheDocs : CallFix(inst, s)

SpecCache == InitCache /\ [][NextCache]_vars

(***************************************************************************)
(* Scenario threads: several threads call find_name_violations (through    *)
(* check or fix, which differ only in thread-local work after it returns)  *)
(* on one rule instance.  A step is one lock acquisition, one critical     *)
(* section with its release, or the scan.                                  *)
(***************************************************************************)
Threads == 1..NumThreads

ConcDocs == { << "g", "o" >>, << " ", "g", "o" >>, << "x" >> }

IdleThread == [pc |-> "idle", content |-> << >>, key |-> 0, result |-> << >>]

InitConc ==
    /\ names = << Go >> /\ code_blocks = TRUE /\ style = "Consistent"
    /\ content = << >> /\ code = {}
    /\ pc = "threads" /\ target = None
    /\ warnings = << >> /\ fixed = << >> /\ refixed = << >>
    /\ hashOf = << >> /\ content_cache = << >> /\ last = << >> /\ firstScan = << >>
    /\ th = [t \in Threads |-> IdleThread]
    /\ cache_lock = 0 /\ regex_lock = 0
    /\ byte_range = [start |-> 0, end |-> 0] /\ lsp_result = << >>
    /\ warning = << >> /\ uri = "" /\ code_action = << >> /\ diagnostic = << >>
    /\ rule = "" /\ queue = << >> /\ fixed_content = << >> /\ applied = << >>
    /\ scan_line_num = 0 /\ scan_byte_pos = 0 /\ violations = << >>

ConcRest == << ruleVars, content, code, pc, target, warnings, fixed, refixed,
               last, firstScan, lspVars, fixVars, scanVars >>

\* Lines 162-179: the early returns, then the hash of the content.
Call(t, s) ==
    /\ th[t].pc = "idle"
    /\ \E h \in hashed(hashOf, names, s) :
         /\ hashOf' = h
         /\ th' = [th EXCEPT ![t] =
                     IF early_return_044(names, s)
                     THEN [pc |-> "done", content |-> s, key |-> 0, result |-> << >>]
                     ELSE [pc |-> "lock_cache", content |-> s, key |-> key_of(h, s),
                           result |-> << >>]]
    /\ UNCHANGED << content_cache, cache_lock, regex_lock, ConcRest >>

\* Line 182: self.content_cache.lock()
LockCache(t) ==
    /\ th[t].pc = "lock_cache"
    /\ cache_lock = 0
    /\ cache_lock' = t
    /\ th' = [th EXCEPT ![t].pc = "lookup"]
    /\ UNCHANGED << hashOf, content_cache, regex_lock, ConcRest >>

\* Lines 183-186: return the cached list, or leave the scope; the guard drops.
Lookup(t) ==
    /\ th[t].pc = "lookup"
    /\ cache_lock' = 0
    /\ th' = [th EXCEPT ![t] =
                IF th[t].key \in DOMAIN content_cache
                THEN [@ EXCEPT !.pc = "done", !.result = content_cache[th[t].key]]
                ELSE [@ EXCEPT !.pc = "lock_regex"]]
    /\ UNCHANGED << hashOf, content_cache, regex_lock, ConcRest >>

\* Line 192: self.combined_regex.lock()
LockRegex(t) ==
    /\ th[t].pc = "lock_regex"
    /\ regex_lock = 0
    /\ regex_lock' = t
    /\ th' = [th EXCEPT ![t].pc = "clone_regex"]
    /\ UNCHANGED << hashOf, content_cache, cache_lock, ConcRest >>

\* Lines 193-197: clone the regex, or return when there is none; the guard drops.
CloneRegex(t) ==
    /\ th[t].pc = "clone_regex"
    /\ regex_lock' = 0
    /\ th' = [th EXCEPT ![t] =
                IF create_combined_pattern(names) = << >>
                THEN [@ EXCEPT !.pc = "done", !.result = << >>]
                ELSE [@ EXCEPT !.pc = "scan"]]
    /\ UNCHANGED << hashOf, content_cache, cache_lock, ConcRest >>

\* Lines 199-252: the scanning loop, on the thread's own clone of the regex.
Scan(t) ==
    /\ th[t].pc = "scan"
    /\ th' = [th EXCEPT ![t].pc = "lock_insert",
                        ![t].result = scan_044(names, code_blocks, th[t].content,
                                               CtxOf(th[t].content))]
    /\ UNCHANGED << hashOf, content_cache, cache_lock, regex_lock, ConcRest >>

\* Lines 255-256: self.content_cache.lock()
LockInsert(t) ==
    /\ th[t].pc = "lock_insert"
    /\ cache_lock = 0
    /\ cache_lock' = t
    /\ th' = [th EXCEPT ![t].pc = "insert"]
    /\ UNCHANGED << hashOf, content_cache, regex_lock, ConcRest >>

\* Lines 257-259: insert(hash, violations.clone()); the guard drops; return.
Insert(t) ==
    /\ th[t].pc = "insert"
    /\ content_cache' = insert(content_cache, th[t].key, th[t].result)
    /\ cache_lock' = 0
    /\ th' = [th EXCEPT ![t].pc = "done"]
    /\ UNCHANGED << hashOf, regex_lock, ConcRest >>

\* The caller takes the list; the thread is free for its next call.
Return(t) ==
    /\ th[t].pc = "done"
    /\ th' = [th EXCEPT ![t] = IdleThread]
    /\ UNCHANGED << hashOf, content_cache, cache_lock, regex_lock, ConcRest >>

NextConc ==
    \E t \in Threads :
        \/ \E s \in ConcDocs : Call(t, s)
        \/ LockCache(t) \/ Lookup(t)
        \/ LockRegex(t) \/ CloneRegex(t)
        \/ Scan(t)
        \/ LockInsert(t) \/ Insert(t)
        \/ Return(t)

SpecConc == InitConc /\ [][NextConc]_vars

(***************************************************************************)
(* LSP (src/src/lsp/types.rs).                                             *)
(***************************************************************************)
Position(line, character) == [line |-> line, character |-> character]

RECURSIVE lsp_walk(_, _, _, _, _, _, _)
\* The for loop over text.chars(): the locals when it ends or breaks.
lsp_walk(text, r, i, line, character, byte_pos, start_pos) ==
    IF i > Len(text)
    THEN [line |-> line, character |-> character, byte_pos |-> byte_pos,
          start_pos |-> start_pos, end_pos |-> << >>]
    ELSE LET sp == IF byte_pos = r.start THEN << Position(line, character) >>
                   ELSE start_pos
         IN  IF byte_pos = r.end
             THEN [line |-> line, character |-> character, byte_pos |-> byte_pos,
                   start_pos |-> sp, end_pos |-> << Position(line, character) >>]
             ELSE IF text[i] = "\n"
             THEN lsp_walk(text, r, i + 1, line + 1, 0, byte_pos + len_utf8(text[i]), sp)
             ELSE lsp_walk(text, r, i + 1, line, character + 1,
                           byte_pos + len_utf8(text[i]), sp)

\* Some(Range) as << [start, end] >>, None as << >>.
byte_range_to_lsp_range(text, r) ==
    LET w == lsp_walk(text, r, 1, 0, 0, 0, << >>)
        end_pos == IF w.byte_pos = r.end /\ w.end_pos = << >>
                   THEN << Position(w.line, w.character) >>
                   ELSE w.end_pos
    IN  IF w.start_pos # << >> /\ end_pos # << >>
        THEN << [start |-> w.start_pos[1], end |-> end_pos[1]] >>
        ELSE << >>

(***************************************************************************)
(* Scenario LSP: one text, one byte range (valid or not), one conversion.  *)
(***************************************************************************)
TokensLsp == { << "a" >>, << E_ACUTE >>, << "\n" >> }

InitLsp ==
    /\ content \in { Flatten(toks) : toks \in SeqsUpTo(TokensLsp, MaxTokens) }
    /\ \E a \in 0..(len(content) + 1), b \in 0..(len(content) + 1) :
         byte_range = [start |-> a, end |-> b]
    /\ lsp_result = << >>
    /\ warning = << >> /\ uri = "" /\ code_action = << >> /\ diagnostic = << >>
    /\ rule = "" /\ queue = << >> /\ fixed_content = << >> /\ applied = << >>
    /\ scan_line_num = 0 /\ scan_byte_pos = 0 /\ violations = << >>
    /\ names = << >> /\ code_blocks = FALSE /\ style = "Consistent"
    /\ code = {}
    /\ pc = "init" /\ target = None
    /\ warnings = << >> /\ fixed = << >> /\ refixed = << >>
    /\ hashOf = << >> /\ content_cache = << >> /\ last = << >> /\ firstScan = << >>
    /\ th = << >> /\ cache_lock = 0 /\ regex_lock = 0

ToRange ==
    /\ pc = "init"
    /\ lsp_result' = byte_range_to_lsp_range(content, byte_range)
    /\ pc' = "converted"
    /\ UNCHANGED << ruleVars, content, code, target, warnings, fixed, refixed,
                    cacheVars, concVars, byte_range, warning, uri, code_action,
                    diagnostic, fixVars, scanVars >>

NextLsp == ToRange

SpecLsp == InitLsp /\ [][NextLsp]_vars

(***************************************************************************)
(* The Diagnostic Adapter (src/src/lsp/types.rs): warning_to_diagnostic    *)
(* and warning_to_code_action.  Option<T> is << >> or << x >>.             *)
(***************************************************************************)
\* usize::saturating_sub
saturating_sub(a, b) == IF a > b THEN a - b ELSE 0

\* match warning.severity
DiagnosticSeverity(severity) ==
    CASE severity = "Error" -> "ERROR" [] severity = "Warning" -> "WARNING"

\* The documentation link built from the rule name.
code_description(rule_name) ==
    IF rule_name = << >> THEN << >>
    ELSE << [href |-> << "https://github.com/rvben/rumdl/blob/main/docs/",
                        to_lowercase(rule_name[1]), ".md" >>] >>

warning_to_diagnostic(w) ==
    [ range |-> [start |-> Position(saturating_sub(w.line, 1),
                                    saturating_sub(w.column, 1)),
                 end   |-> Position(saturating_sub(w.end_line, 1),
                                    saturating_sub(w.end_column, 1))],
      severity |-> << DiagnosticSeverity(w.severity) >>,
      code |-> w.rule_name,
      source |-> << "rumdl" >>,
      message |-> w.message,
      code_description |-> code_description(w.rule_name) ]

\* Some(CodeAction) as << action >>, None as << >>.  changes is the HashMap
\* with the one key uri.
warning_to_code_action(w, u, document_text) ==
    IF w.fix # << >>
    THEN LET fix == w.fix[1]
             range == byte_range_to_lsp_range(document_text, fix.range)
         IN  IF range = << >> THEN << >>
             ELSE LET edit == [range |-> range[1], new_text |-> fix.replacement]
                  IN  << [ title |-> << "Fix: ", w.message >>,
                           kind |-> "quickfix",
                           diagnostics |-> << warning_to_diagnostic(w) >>,
                           edit |-> [changes |-> [k \in {u} |-> << edit >>]],
                           is_preferred |-> TRUE ] >>
    ELSE << >>

(***************************************************************************)
(* Scenario Adapter: one text, one warning (with or without a Fix, whose   *)
(* range may be valid or not), converted to a code action and then to a    *)
(* diagnostic.                                                             *)
(***************************************************************************)
Urls == { "file:///a.md", "file:///b.md" }

Fixes(text) ==
    { << >> } \cup
    { << [range |-> [start |-> a, end |-> b], replacement |-> << "G", "o" >>] >> :
        a \in 0..(len(text) + 1), b \in 0..(len(text) + 1) }

LintWarnings(text) ==
    { [ line |-> l, column |-> c, end_line |-> l, end_column |-> c + 2,
        severity |-> sv, rule_name |-> rn,
        message |-> << "Proper name 'go' should be 'Go'" >>, fix |-> f ] :
        l \in 0..1, c \in {0, 2}, sv \in {"Error", "Warning"},
        rn \in { << >>, << << "M", "D", "0", "4", "4" >> >> },
        f \in Fixes(text) }

InitAdapter ==
    /\ content \in { Flatten(toks) : toks \in SeqsUpTo(TokensLsp, MaxTokens) }
    /\ warning \in LintWarnings(content)
    /\ uri \in Urls
    /\ code_action = << >> /\ diagnostic = << >>
    /\ rule = "" /\ queue = << >> /\ fixed_content = << >> /\ applied = << >>
    /\ scan_line_num = 0 /\ scan_byte_pos = 0 /\ violations = << >>
    /\ byte_range = [start |-> 0, end |-> 0] /\ lsp_result = << >>
    /\ names = << >> /\ code_blocks = FALSE /\ style = "Consistent"
    /\ code = {}
    /\ pc = "init" /\ target = None
    /\ warnings = << >> /\ fixed = << >> /\ refixed = << >>
    /\ hashOf = << >> /\ content_cache = << >> /\ last = << >> /\ firstScan = << >>
    /\ th = << >> /\ cache_lock = 0 /\ regex_lock = 0

ToCodeAction ==
    /\ pc = "init"
    /\ code_action' = warning_to_code_action(warning, uri, content)
    /\ pc' = "acted"
    /\ UNCHANGED << ruleVars, content, code, target, warnings, fixed, refixed,
                    cacheVars, concVars, byte_range, lsp_result, warning, uri,
                    diagnostic, fixVars, scanVars >>

ToDiagnostic ==
    /\ pc = "acted"
    /\ diagnostic' = << warning_to_diagnostic(warning) >>
    /\ pc' = "diagnosed"
    /\ UNCHANGED << ruleVars, content, code, target, warnings, fixed, refixed,
                    cacheVars, concVars, byte_range, lsp_result, warning, uri,
                    code_action, fixVars, scanVars >>

NextAdapter == ToCodeAction \/ ToDiagnostic

SpecAdapter == InitAdapter /\ [][NextAdapter]_vars

(***************************************************************************)
(* Scenario fix loop: the fix of MD044 or MD050 on one document of a fresh *)
(* rule instance, one loop iteration per step.  applied records every edit *)
(* the loop performs: its byte range, the range of the regex match it      *)
(* stems from, and the working buffer just before it.                      *)
(***************************************************************************)
InitFix ==
    /\ \/ /\ rule = "MD044"
          /\ \E toks \in SeqsUpTo(Tokens044, MaxTokens) :
               /\ content = Flatten(toks)
               /\ code \in CodeRegions(toks)
          /\ names \in NameLists044
          /\ code_blocks \in BOOLEAN
          /\ style = "Consistent"
       \/ /\ rule = "MD050"
          /\ \E toks \in SeqsUpTo(Tokens050, MaxTokens) :
               /\ content = Flatten(toks)
               /\ code \in CodeRegions(toks)
          /\ style \in Styles
          /\ names = << >> /\ code_blocks = FALSE
    /\ pc = "init" /\ target = None
    /\ warnings = << >> /\ fixed = << >> /\ refixed = << >>
    /\ queue = << >> /\ fixed_content = << >> /\ applied = << >>
    /\ scan_line_num = 0 /\ scan_byte_pos = 0 /\ violations = << >>
    /\ hashOf = << >> /\ content_cache = << >> /\ last = << >> /\ firstScan = << >>
    /\ th = << >> /\ cache_lock = 0 /\ regex_lock = 0
    /\ byte_range = [start |-> 0, end |-> 0] /\ lsp_result = << >>
    /\ warning = << >> /\ uri = "" /\ code_action = << >> /\ diagnostic = << >>

\* MD044 fix up to its loop: the early returns, find_name_violations, the sort.
Begin044 ==
    /\ pc = "init" /\ rule = "MD044"
    /\ \E h \in hashed(hashOf, names, content) :
         /\ hashOf' = h
         /\ IF content = << >> \/ names = << >>
            THEN /\ fixed' = content /\ pc' = "fixed"
                 /\ UNCHANGED << content_cache, queue, fixed_content >>
            ELSE LET r == find_name_violations(names, code_blocks, content, code,
                                               content_cache, key_of(h, content))
                 IN  /\ content_cache' = r.cache
                     /\ IF r.violations = << >>
                        THEN /\ fixed' = content /\ pc' = "fixed"
                             /\ UNCHANGED << queue, fixed_content >>
                        ELSE /\ queue' = sort_desc(r.violations)
                             /\ fixed_content' = content
                             /\ pc' = "applying"
                             /\ UNCHANGED fixed
    /\ UNCHANGED << ruleVars, content, code, target, warnings, refixed, last, firstScan,
                    concVars, lspVars, rule, applied, scanVars >>

\* One iteration of the loop of MD044 fix.
Edit044 ==
    /\ pc = "applying" /\ rule = "MD044" /\ queue # << >>
    /\ LET v == Head(queue)
           proper == get_proper_name_for(names, v[3])
           start_byte == line_col_to_byte_range(content, v[1], v[2])
           end_byte == start_byte + len(v[3])
       IN  IF proper # << >> /\ end_byte <= len(fixed_content)
              /\ is_char_boundary(fixed_content, start_byte)
              /\ is_char_boundary(fixed_content, end_byte)
           THEN /\ fixed_content' = replace_range(fixed_content, start_byte, end_byte, proper[1])
                /\ applied' = Append(applied,
                     [ start |-> start_byte, end |-> end_byte,
                       match_start |-> LineStarts(content)[v[1]] + (v[2] - 1),
                       match_end |-> LineStarts(content)[v[1]] + (v[2] - 1) + len(v[3]),
                       before |-> fixed_content ])
           ELSE UNCHANGED << fixed_content, applied >>
    /\ queue' = Tail(queue)
    /\ UNCHANGED << ruleVars, content, code, pc, target, warnings, fixed, refixed,
                    cacheVars, concVars, lspVars, rule, scanVars >>

\* MD050 fix up to its loop: the target style and the matches.
Begin050 ==
    /\ pc = "init" /\ rule = "MD050"
    /\ target' = target_style(style, content, code)
    /\ queue' = Reverse(fix_matches_050(style, content, code))
    /\ fixed_content' = content
    /\ pc' = "applying"
    /\ UNCHANGED << ruleVars, content, code, warnings, fixed, refixed, cacheVars,
                    concVars, lspVars, rule, applied, scanVars >>

\* One iteration of the loop of MD050 fix.
Edit050 ==
    /\ pc = "applying" /\ rule = "MD050" /\ queue # << >>
    /\ LET m == Head(queue)
           text == Slice(fixed_content, m.start + 2, m.end - 2)
       IN  /\ fixed_content' = replace_range(fixed_content, m.start, m.end,
                                             wrap_050(target, text))
           /\ applied' = Append(applied,
                [ start |-> m.start, end |-> m.end,
                  match_start |-> m.start, match_end |-> m.end,
                  before |-> fixed_content ])
    /\ queue' = Tail(queue)
    /\ UNCHANGED << ruleVars, content, code, pc, target, warnings, fixed, refixed,
                    cacheVars, concVars, lspVars, rule, scanVars >>

\* The loop is over: Ok(fixed_content) / Ok(result).
ReturnFix ==
    /\ pc = "applying" /\ queue = << >>
    /\ fixed' = fixed_content
    /\ pc' = "fixed"
    /\ UNCHANGED << ruleVars, content, code, target, warnings, refixed, cacheVars,
                    concVars, lspVars, rule, queue, fixed_content, applied, scanVars >>

NextFix == Begin044 \/ Edit044 \/ Begin050 \/ Edit050 \/ ReturnFix

SpecFix == InitFix /\ [][NextFix]_vars

(***************************************************************************)
(* Scenario line loop: the per-line scans of MD044 find_name_violations    *)
(* and MD050 check on one document of a fresh rule instance, one line per  *)
(* step.  The documents have lines ended by "\n" and by "\r\n".            *)
(***************************************************************************)
CRLF == << "\r", "\n" >>

TokensScan044 == { << "g", "o" >>, << " " >>, << E_ACUTE >>, << "\n" >>, CRLF }

TokensScan050 == { << "*", "*", "a", "*", "*" >>, << "a" >>, << E_ACUTE >>, << "\n" >>, CRLF }

InitScan ==
    /\ \/ /\ rule = "MD044"
          /\ \E toks \in SeqsUpTo(TokensScan044, MaxTokens) :
               /\ content = Flatten(toks)
               /\ code \in CodeRegions(toks)
          /\ names = << Go >>
          /\ code_blocks \in BOOLEAN
          /\ style = "Consistent"
       \/ /\ rule = "MD050"
          /\ \E toks \in SeqsUpTo(TokensScan050, MaxTokens) :
               /\ content = Flatten(toks)
               /\ code \in CodeRegions(toks)
          /\ style \in Styles
          /\ names = << >> /\ code_blocks = FALSE
    /\ pc = "init" /\ target = None
    /\ warnings = << >> /\ fixed = << >> /\ refixed = << >>
    /\ queue = << >> /\ fixed_content = << >> /\ applied = << >>
    /\ scan_line_num = 0 /\ scan_byte_pos = 0 /\ violations = << >>
    /\ hashOf = << >> /\ content_cache = << >> /\ last = << >> /\ firstScan = << >>
    /\ th = << >> /\ cache_lock = 0 /\ regex_lock = 0
    /\ byte_range = [start |-> 0, end |-> 0] /\ lsp_result = << >>
    /\ warning = << >> /\ uri = "" /\ code_action = << >> /\ diagnostic = << >>

\* find_name_violations up to its loop: the early returns, the cache lookup
\* (a miss: the instance is fresh), the regex clone.
BeginScan044 ==
    /\ pc = "init" /\ rule = "MD044"
    /\ \E h \in hashed(hashOf, names, content) : hashOf' = h
    /\ IF early_return_044(names, content) \/ create_combined_pattern(names) = << >>
       THEN pc' = "scanned"
       ELSE pc' = "scanning"
    /\ scan_line_num' = 0 /\ scan_byte_pos' = 0 /\ violations' = << >>
    /\ UNCHANGED << ruleVars, content, code, target, warnings, fixed, refixed,
                    content_cache, last, firstScan, concVars, lspVars, fixVars >>

\* One iteration of the line loop of find_name_violations.
ScanLine044 ==
    /\ pc = "scanning" /\ rule = "MD044" /\ scan_line_num < Len(lines(content))
    /\ LET l == lines(content)[scan_line_num + 1]
           trimmed == trim_start(l)
       IN  violations' =
             IF starts_with(trimmed, << BACKTICK, BACKTICK, BACKTICK >>)
                \/ starts_with(trimmed, << "~", "~", "~" >>) THEN violations
             ELSE IF code_blocks /\ is_in_code_block_or_span(code, scan_byte_pos) THEN violations
             ELSE IF ~has_potential_matches(names, l) THEN violations
             ELSE violations \o
                  scan_matches_044(names, scan_line_num, l,
                                   find_iter_044(create_combined_pattern(names), l))
    /\ scan_byte_pos' = scan_byte_pos + len(lines(content)[scan_line_num + 1]) + 1
    /\ scan_line_num' = scan_line_num + 1
    /\ UNCHANGED << ruleVars, content, code, pc, target, warnings, fixed, refixed,
                    cacheVars, concVars, lspVars, fixVars >>

\* The loop is over: the list is stored in the cache and returned.
EndScan044 ==
    /\ pc = "scanning" /\ rule = "MD044" /\ scan_line_num >= Len(lines(content))
    /\ content_cache' = insert(content_cache, key_of(hashOf, content), violations)
    /\ pc' = "scanned"
    /\ UNCHANGED << ruleVars, content, code, target, warnings, fixed, refixed,
                    hashOf, last, firstScan, concVars, lspVars, fixVars, scanVars >>

\* MD050 check up to its loop.
BeginCheck050 ==
    /\ pc = "init" /\ rule = "MD050"
    /\ target' = target_style(style, content, code)
    /\ warnings' = << >>
    /\ scan_line_num' = 0 /\ scan_byte_pos' = 0
    /\ pc' = "scanning"
    /\ UNCHANGED << ruleVars, content, code, fixed, refixed, cacheVars, concVars,
                    lspVars, fixVars, violations >>

\* One iteration of the line loop of MD050 check.
CheckLine050 ==
    /\ pc = "scanning" /\ rule = "MD050" /\ scan_line_num < Len(lines(content))
    /\ LET l == lines(content)[scan_line_num + 1]
       IN  /\ warnings' = warnings \o
                 check_matches_050(content, code, target, scan_line_num, l, scan_byte_pos,
                                   find_iter(strong_regex(target), l))
           /\ scan_byte_pos' = scan_byte_pos + len(l) + 1
    /\ scan_line_num' = scan_line_num + 1
    /\ UNCHANGED << ruleVars, content, code, pc, target, fixed, refixed, cacheVars,
                    concVars, lspVars, fixVars, violations >>

\* The loop is over: Ok(warnings).
EndCheck050 ==
    /\ pc = "scanning" /\ rule = "MD050" /\ scan_line_num >= Len(lines(content))
    /\ pc' = "scanned"
    /\ UNCHANGED << ruleVars, content, code, target, warnings, fixed, refixed,
                    cacheVars, concVars, lspVars, fixVars, scanVars >>

NextScan ==
    \/ BeginScan044 \/ ScanLine044 \/ EndScan044
    \/ BeginCheck050 \/ CheckLine050 \/ EndCheck050

SpecScan == InitScan /\ [][NextScan]_vars

(***************************************************************************)
(* Helpers of the claims about MD050.                                      *)
(***************************************************************************)
Range(f) == { f[i] : i \in DOMAIN f }

\* True byte offset in the document of the match a warning reports.
TrueOffset(w) ==
    LineStarts(content)[w.line] + ByteOff(lines(content)[w.line], w.column)

RECURSIVE TrueBackslashes(_, _)
\* Number of consecutive backslash characters immediately before the character
\* with index k of s.
TrueBackslashes(s, k) ==
    IF k <= 1 \/ s[k - 1] # "\\" THEN 0 ELSE 1 + TrueBackslashes(s, k - 1)

MarkerOf(t) == IF t = "Asterisk" THEN "*" ELSE "_"
OtherMarkerOf(t) == IF t = "Asterisk" THEN "_" ELSE "*"

\* Starts of the matches of a pattern in the document that are outside code.
NonCodeStarts(mk) == { m.start : m \in Range(find_iter(mk, content)) } \ code

\* check flagged the match of line number n (1-based) starting at byte m.start
\* of that line.
Flagged(n, m) ==
    \E i \in DOMAIN warnings :
        warnings[i].line = n /\ warnings[i].column = CharIdx(lines(content)[n], m.start)

\* fix rewrote the whole-document match m: its opening marker is the target's.
Rewritten(m) == fixed[CharIdx(content, m.start)] = MarkerOf(target)

\* C2: for both rules, a check that returns no violation means fix returns the
\* document unchanged.
C2_EmptyCheckFixIdentity ==
    (pc \in { "fixed", "refixed" } /\ warnings = << >>) => fixed = content

\* C3: fix is idempotent: fixing the fixed text (style and violations derived
\* again from it) returns the fixed text.
C3_FixIdempotent ==
    pc = "refixed" => refixed = fixed

\* C4: a match of the non-target pattern outside code regions is excluded by
\* check and by fix exactly when an odd number of backslashes immediately
\* precedes it, whatever precedes the backslashes.
C4_EscapeParity ==
    pc \in { "fixed", "refixed" } =>
        /\ \A n \in 1..Len(lines(content)) :
             LET l == lines(content)[n]
             IN  \A m \in Range(find_iter(strong_regex(target), l)) :
                   (LineStarts(content)[n] + m.start) \notin code =>
                      (Flagged(n, m) <=> TrueBackslashes(l, CharIdx(l, m.start)) % 2 = 0)
        /\ \A m \in Range(find_iter(strong_regex(target), content)) :
             m.start \notin code =>
                (Rewritten(m) <=> TrueBackslashes(content, CharIdx(content, m.start)) % 2 = 0)

\* The style the first occurrence outside code regions decides.
ExpectedTarget ==
    LET A == NonCodeStarts(ASTERISK_PATTERN)
        U == NonCodeStarts(UNDERSCORE_PATTERN)
    IN  IF U = {} THEN "Asterisk"
        ELSE IF A = {} THEN "Underscore"
        ELSE IF Min(A) < Min(U) THEN "Asterisk" ELSE "Underscore"

\* C5: with style Consistent the target is the style of the pattern whose first
\* occurrence outside code regions has the lower byte offset (the only one that
\* occurs; Asterisk when none does); check flags and fix rewrites only
\* occurrences of the other marker, never the occurrence that decided.
C5_StyleInference ==
    (style = "Consistent" /\ pc # "init") =>
        LET Deciders == NonCodeStarts(ASTERISK_PATTERN) \cup NonCodeStarts(UNDERSCORE_PATTERN)
        IN  /\ target = ExpectedTarget
            /\ \A i \in DOMAIN warnings :
                 /\ Slice(content, TrueOffset(warnings[i]), TrueOffset(warnings[i]) + 2)
                      = << OtherMarkerOf(target), OtherMarkerOf(target) >>
                 /\ SubSeq(warnings[i].replacement, 1, 2)
                      = << MarkerOf(target), MarkerOf(target) >>
                 /\ Deciders # {} => TrueOffset(warnings[i]) # Min(Deciders)
            /\ pc \in { "fixed", "refixed" } =>
                 /\ Len(fixed) = Len(content)
                 /\ \A k \in 1..Len(content) :
                      fixed[k] # content[k] =>
                         /\ content[k] = OtherMarkerOf(target)
                         /\ fixed[k] = MarkerOf(target)
                         /\ Deciders # {} =>
                              ~(ByteOff(content, k) \in Min(Deciders)..(Min(Deciders) + 1))

\* C5 witness: an asterisk pair inside a code region comes first, an underscore
\* pair outside code decides, and a later asterisk pair is flagged and rewritten.
C5_Witness ==
    /\ style = "Consistent" /\ pc = "fixed"
    /\ target = "Underscore"
    /\ \E m \in Range(find_iter(ASTERISK_PATTERN, content)) :
         m.start \in code /\ m.start < Min(NonCodeStarts(UNDERSCORE_PATTERN) \cup { len(content) })
    /\ NonCodeStarts(UNDERSCORE_PATTERN) # {}
    /\ warnings # << >>
    /\ fixed # content

(***************************************************************************)
(* Claims about MD044 in the single-call scenario.                         *)
(***************************************************************************)
\* The match an MD044 warning reports: find_name_violations stores
\* cap.start() + 1 as its column, so the match starts at byte column - 1 of
\* its line.
MatchStartInLine(w) == w.column - 1
MatchOffset044(w) == LineStarts(content)[w.line] + MatchStartInLine(w)
FoundName(w) == w.message[2]

\* C1: with code-block exclusion enabled, no violation check returns has its
\* match start classified by the oracle as inside a code block or code span.
C1_NoViolationInCode ==
    (code_blocks /\ pc \in { "checked", "fixed" }) =>
        \A i \in DOMAIN warnings :
            ~is_in_code_block_or_span(code, MatchOffset044(warnings[i]))

\* C9: column is 1 plus the number of characters before the match on its
\* line, and end_column - column is the number of characters of the match.
C9_ColumnsCountCharacters ==
    pc \in { "checked", "fixed" } =>
        \A i \in DOMAIN warnings :
            LET w == warnings[i]
                l == lines(content)[w.line]
            IN  /\ w.column = 1 + (CharIdx(l, MatchStartInLine(w)) - 1)
                /\ w.end_column - w.column = Len(FoundName(w))

(***************************************************************************)
(* Claims about the MD044 cache.                                           *)
(***************************************************************************)
\* C6: once a call has run the scan on a content, every later check or fix on
\* that content, on the instance or its clone, returns the list that scan
\* produced and does not scan again, whatever was checked in between.
C6_CacheServesRepeats ==
    (last # << >> /\ last[1].seen) =>
        /\ ~last[1].scanned
        /\ last[1].violations = firstScan[last[1].content]

\* C6 witness: a fix through the clone is served the non-empty list of an
\* earlier scan of its content, after another content was scanned as well.
C6_Witness ==
    /\ last # << >> /\ last[1].seen /\ ~last[1].scanned
    /\ last[1].instance = "clone" /\ last[1].op = "fix"
    /\ last[1].violations # << >>
    /\ Cardinality(DOMAIN firstScan) >= 2

\* C7: a call served from the cache gets a list that was computed for its own
\* content, never one computed for a different content.
C7_NoStaleEntry ==
    (last # << >> /\ last[1].hit) =>
        /\ last[1].content \in DOMAIN firstScan
        /\ last[1].violations = firstScan[last[1].content]

\* What a call on a fresh instance returns for s.
SequentialResult(s) ==
    find_name_violations(names, code_blocks, s, CtxOf(s), << >>, 0).violations

\* A lock is held only inside its critical section: never across the scan,
\* and never together with the other lock.
C8_LockDiscipline ==
    \A t \in Threads :
        /\ cache_lock = t => th[t].pc \in { "lookup", "insert" }
        /\ regex_lock = t => th[t].pc = "clone_regex"
        /\ ~(cache_lock = t /\ regex_lock = t)

\* Two threads that missed the cache for one content insert the same list.
C8_SameInsert ==
    \A t \in Threads, u \in Threads :
        (/\ th[t].pc \in { "lock_insert", "insert" }
         /\ th[u].pc \in { "lock_insert", "insert" }
         /\ th[t].content = th[u].content) => th[t].result = th[u].result

\* C8: under every interleaving no lock is held across the scan, no thread
\* holds both locks, and every call returns the list a sequential call on its
\* content returns; two threads that miss for one content insert the same list.
C8_ConcurrentCalls ==
    pc = "threads" =>
        /\ C8_LockDiscipline
        /\ C8_SameInsert
        /\ \A t \in Threads :
             th[t].pc = "done" => th[t].result = SequentialResult(th[t].content)

(***************************************************************************)
(* Claims about the LSP conversion.                                        *)
(***************************************************************************)
\* (newlines before byte offset b, characters since the last of them).
PositionOf(text, b) ==
    LET k == CharIdx(text, b)
        nl == { i \in 1..(k - 1) : text[i] = "\n" }
        lastNl == IF nl = {} THEN 0 ELSE CHOOSE i \in nl : \A j \in nl : j <= i
    IN  Position(Cardinality(nl), k - 1 - lastNl)

\* C10: a range with 0 <= start <= end <= len(text), both on character
\* boundaries, end = len(text) and start = end = len(text) included, converts
\* to a position pair (not None) holding the two positions.
C10_ValidRangeConverts ==
    (/\ pc = "converted"
     /\ byte_range.start <= byte_range.end /\ byte_range.end <= len(content)
     /\ is_char_boundary(content, byte_range.start)
     /\ is_char_boundary(content, byte_range.end)) =>
        /\ lsp_result # << >>
        /\ lsp_result[1].start = PositionOf(content, byte_range.start)
        /\ lsp_result[1].end = PositionOf(content, byte_range.end)

(***************************************************************************)
(* Helpers of the claims about the Diagnostic Adapter.                     *)
(***************************************************************************)
\* A byte range the specification calls mappable: well-formed, within the
\* text (its end included), both offsets on character boundaries.
Mappable(text, r) ==
    /\ r.start <= r.end /\ r.end <= len(text)
    /\ is_char_boundary(text, r.start)
    /\ is_char_boundary(text, r.end)

\* The diagnostic of a warning: 1-based positions moved to 0-based ones by
\* subtraction, severity and message carried over.
DiagnosticOf(w) ==
    /\ diagnostic # << >>
    /\ diagnostic[1].range.start.line = (IF w.line = 0 THEN 0 ELSE w.line - 1)
    /\ diagnostic[1].range.start.character = (IF w.column = 0 THEN 0 ELSE w.column - 1)
    /\ diagnostic[1].severity = << IF w.severity = "Error" THEN "ERROR" ELSE "WARNING" >>
    /\ diagnostic[1].message = w.message

\* The produced action holds exactly one text edit, for the given document,
\* over the position pair of the Fix range, whose new text is the replacement.
C11_OneEdit ==
    (pc \in {"acted", "diagnosed"} /\ code_action # << >>) =>
        /\ warning.fix # << >>
        /\ DOMAIN code_action[1].edit.changes = {uri}
        /\ Len(code_action[1].edit.changes[uri]) = 1
        /\ code_action[1].edit.changes[uri][1].new_text = warning.fix[1].replacement
        /\ code_action[1].edit.changes[uri][1].range =
             [start |-> PositionOf(content, warning.fix[1].range.start),
              end   |-> PositionOf(content, warning.fix[1].range.end)]

\* No action without a Fix or for a range that is not mappable; the
\* diagnostic is produced all the same.
C11_NoActionWhenUnmappable ==
    /\ (pc \in {"acted", "diagnosed"}
        /\ (warning.fix = << >> \/ ~Mappable(content, warning.fix[1].range))) =>
           code_action = << >>
    /\ pc = "diagnosed" => DiagnosticOf(warning)

\* C11: warning_to_code_action returns a quick-fix action exactly when the
\* warning carries a Fix whose byte range is mappable (no Fix, an offset off a
\* character boundary or past the end of the text: no action, and the
\* diagnostic is still produced); the action holds exactly one text edit, for
\* the given document, whose new text is the Fix replacement.
C11_CodeActionIffMappable ==
    /\ pc \in {"acted", "diagnosed"} =>
         (code_action # << >> <=>
            (warning.fix # << >> /\ Mappable(content, warning.fix[1].range)))
    /\ C11_OneEdit
    /\ C11_NoActionWhenUnmappable

(***************************************************************************)
(* Claims about the matches of MD044 (single-call scenario).               *)
(***************************************************************************)
\* A word character: a letter, a digit or the underscore, in any script.
IsWordChar(ch) == IsAsciiAlnum(ch) \/ ch = E_ACUTE \/ ch = "_"

\* The n characters at character index k of line l stand alone as a word.
Standalone(l, k, n) ==
    /\ (k = 1 \/ ~IsWordChar(l[k - 1]))
    /\ (k + n > Len(l) \/ ~IsWordChar(l[k + n]))

\* The forms under which a configured name is searched.
FormsOf(name) == { to_lowercase(name), replace_dots(to_lowercase(name)) }

\* The line is one the scan looks at: not a fence line, and not skipped for
\* starting inside a code region.
Scanned044(ln) ==
    /\ ~starts_with(trim_start(lines(content)[ln]), << BACKTICK, BACKTICK, BACKTICK >>)
    /\ ~starts_with(trim_start(lines(content)[ln]), << "~", "~", "~" >>)
    /\ ~(code_blocks /\ is_in_code_block_or_span(code, LineStarts(content)[ln]))

\* No violation is reported for an occurrence that has a word character
\* immediately before or after it.
C12_NoPartialWordMatch ==
    pc \in { "checked", "fixed" } =>
        \A i \in DOMAIN warnings :
            LET w == warnings[i]
                l == lines(content)[w.line]
            IN  Standalone(l, CharIdx(l, MatchStartInLine(w)), Len(FoundName(w)))

\* A standalone occurrence of a form of a configured name, written as none of
\* the configured names, gets exactly one violation, whose replacement is a
\* configured name of that form.
C12_StandaloneFlaggedOnce ==
    pc \in { "checked", "fixed" } =>
        \A ln \in DOMAIN lines(content) :
            LET l == lines(content)[ln]
            IN  \A k \in DOMAIN l : \A i \in DOMAIN names : \A f \in FormsOf(names[i]) :
                    (/\ Scanned044(ln)
                     /\ k + Len(f) - 1 <= Len(l)
                     /\ to_lowercase(SubSeq(l, k, k + Len(f) - 1)) = f
                     /\ Standalone(l, k, Len(f))
                     /\ SubSeq(l, k, k + Len(f) - 1) \notin Range(names)) =>
                        LET at == { j \in DOMAIN warnings :
                                      /\ warnings[j].line = ln
                                      /\ MatchStartInLine(warnings[j]) = ByteOff(l, k) }
                        IN  /\ Cardinality(at) = 1
                            /\ \A j \in at :
                                 /\ warnings[j].replacement \in Range(names)
                                 /\ f \in FormsOf(warnings[j].replacement)

\* C12: a configured name (or its dot-stripped form) with a word character
\* immediately before or after it never produces a violation, and a standalone
\* occurrence with wrong capitalization produces exactly one violation whose
\* replacement is the configured name.
C12_WordBoundaries == C12_NoPartialWordMatch /\ C12_StandaloneFlaggedOnce

\* Every violation's matched text differs from its replacement and equals it,
\* or its dot-stripped form, case-insensitively.
C13_ViolationDiffersFromReplacement ==
    pc \in { "checked", "fixed" } =>
        \A i \in DOMAIN warnings :
            /\ FoundName(warnings[i]) # warnings[i].replacement
            /\ to_lowercase(FoundName(warnings[i])) \in FormsOf(warnings[i].replacement)

\* C13: every violation's matched text differs byte-for-byte from its
\* replacement and equals it (or its dot-stripped form) case-insensitively, and
\* an occurrence byte-equal to one of the configured names is never reported,
\* also when another configured name is case-insensitively equal to it.
C13_OnlyWrongNamesFlagged ==
    /\ C13_ViolationDiffersFromReplacement
    /\ pc \in { "checked", "fixed" } =>
         \A i \in DOMAIN warnings : FoundName(warnings[i]) \notin Range(names)

(***************************************************************************)
(* Claims about the fix loops.                                             *)
(***************************************************************************)
RECURSIVE Bytes(_)
\* The UTF-8 bytes of a text: byte j of character ch is the pair << ch, j >>.
Bytes(s) ==
    IF s = << >> THEN << >>
    ELSE [j \in 1..len_utf8(Head(s)) |-> << Head(s), j >>] \o Bytes(Tail(s))

\* The step-wise loops return what fix returns.
FixLoopIsFix ==
    (pc = "fixed" /\ rule = "MD044" =>
        fixed = MD044_fix(names, code_blocks, content, code, << >>, 1).text)
    /\ (pc = "fixed" /\ rule = "MD050" => fixed = MD050_fix(style, content, code))

\* Edits are applied in strictly descending start offset and do not overlap.
C14_Descending ==
    \A i \in DOMAIN applied :
        i > 1 => /\ applied[i].start < applied[i - 1].start
                 /\ applied[i].end <= applied[i - 1].start

\* Before an edit is applied the buffer's bytes from 0 up to the edit's end are
\* the original document's.
C14_PrefixUntouched ==
    \A i \in DOMAIN applied :
        /\ applied[i].end <= len(content)
        /\ SubSeq(Bytes(applied[i].before), 1, applied[i].end)
             = SubSeq(Bytes(content), 1, applied[i].end)

\* Every edit replaces exactly the range of the match it stems from.
C14_ReplacesTheMatch ==
    \A i \in DOMAIN applied :
        /\ applied[i].start = applied[i].match_start
        /\ applied[i].end = applied[i].match_end

\* C14: in MD044 fix and MD050 fix, edits are applied in strictly descending
\* start offset; before each edit the working buffer's bytes from 0 up to the
\* edit's end are identical to the original document's; so every edit replaces
\* exactly the text originally matched at its range, and no edit's range
\* overlaps or is shifted by an edit applied earlier.
C14_ReverseOrderKeepsOffsets ==
    C14_Descending /\ C14_PrefixUntouched /\ C14_ReplacesTheMatch

(***************************************************************************)
(* Claims about the line loops.                                            *)
(***************************************************************************)
\* The step-wise loops return what the scans return.
ScanLoopIsScan ==
    (pc = "scanned" /\ rule = "MD044" =>
        violations = find_name_violations(names, code_blocks, content, code, << >>, 1).violations)
    /\ (pc = "scanned" /\ rule = "MD050" => warnings = MD050_check(style, content, code))

\* C15: in MD044 find_name_violations and MD050 check, at the start of
\* processing each line the running byte_pos equals the true byte offset of
\* that line's first character in the document, for lines ended by "\n" and
\* by "\r\n".
C15_BytePosIsLineStart ==
    (pc = "scanning" /\ scan_line_num < Len(lines(content))) =>
        scan_byte_pos = LineStarts(content)[scan_line_num + 1]

====
